---- MODULE Spec2Model ----
(***************************************************************************)
(* A model of the mychart_ledger credential vault: the two LedgerBackend   *)
(* classes (src/ledger_backend.py, used by the HTTP API of src/app_api.py, *)
(* and src/app.py, used by the kiosk), the SQLite file they share, the     *)
(* process-wide Fernet key, the reset tokens kept in the hint column and   *)
(* the biometric enrolment.                                                *)
(*                                                                         *)
(* Text is a sequence of Unicode code points, bytes are a sequence of      *)
(* numbers 0..255, user ids are strings.  The clock counts hours, and the  *)
(* date and time fields of a timestamp are written as the hour count in    *)
(* two digits; what follows them is text as it is.                         *)
(***************************************************************************)
EXTENDS FiniteSets, Integers, Sequences, TLC

VARIABLES
    tables,            \* the tables that exist in the SQLite file
    user_credentials,  \* rows of table user_credentials
    user_biometrics,   \* rows of table user_biometrics
    backend,           \* the LedgerBackend class of the process making the calls
    key,               \* self.key of the process making the calls
    now,               \* datetime.now(), in hours
    call,              \* the last call that ended: operation, arguments, outcome
    log,               \* what the last call wrote to the logger
    saved,             \* history: per user, what the running process last stored
    active,            \* history: per user, what the last issue returned since the last store
    pending,           \* the reset_password calls between their lookup and their
                       \* UPDATE: own, the user_id of the one of the process making
                       \* the calls, if any; others, per user_id the number of
                       \* those of the processes beside it
    verified           \* history: per user, the token a verify returned True for
                       \* since the last store or issue, its expiry and when

vars == <<tables, user_credentials, user_biometrics, backend, key, now,
          call, log, saved, active, pending, verified>>

----------------------------------------------------------------------------
(* Bounds of the model *)

\* Fernet.generate_key() draws from 1..MaxKeys (two starts may draw the same key)
MaxKeys == 2
\* the clock advances half a token lifetime at a time, MaxTicks times at most
MaxTicks == 3
\* at most MaxPending reset_password calls are under way at a time
MaxPending == 2

(* Program constants *)

\* timedelta(hours=24)
TokenLifetimeHours == 24
\* the separator of f"{reset_token}|{expiry}"
Pipe == 124

TickHours == TokenLifetimeHours \div 2

Keys == 1 .. MaxKeys
Backends == {"ledger_backend", "app"}

None == [tag |-> "None"]
Bool(b) == [tag |-> "bool", value |-> b]

----------------------------------------------------------------------------
(* str.encode("utf-8") and bytes.decode("utf-8") *)

IsSurrogate(cp) == cp >= 55296 /\ cp <= 57343

\* the UTF-8 bytes of one code point (surrogates have none)
utf8_char(cp) ==
    IF cp < 128 THEN <<cp>>
    ELSE IF cp < 2048 THEN <<192 + (cp \div 64), 128 + (cp % 64)>>
    ELSE IF cp < 65536 THEN
        <<224 + (cp \div 4096), 128 + ((cp \div 64) % 64), 128 + (cp % 64)>>
    ELSE <<240 + (cp \div 262144), 128 + ((cp \div 4096) % 64),
           128 + ((cp \div 64) % 64), 128 + (cp % 64)>>

\* str.encode raises UnicodeEncodeError on a lone surrogate
can_encode(s) == \A i \in 1 .. Len(s) : ~IsSurrogate(s[i])

RECURSIVE encode(_)
encode(s) == IF s = <<>> THEN <<>> ELSE utf8_char(Head(s)) \o encode(Tail(s))

IsCont(b) == b >= 128 /\ b < 192

\* the length of the UTF-8 sequence a lead byte starts, 0 for an invalid lead byte
lead_len(b) ==
    IF b < 128 THEN 1
    ELSE IF b >= 194 /\ b < 224 THEN 2
    ELSE IF b >= 224 /\ b < 240 THEN 3
    ELSE IF b >= 240 /\ b < 245 THEN 4
    ELSE 0

\* the second byte a lead byte admits: E0 and F0 exclude the overlong forms,
\* F4 everything above U+10FFFF
second_ok(lead, b2) ==
    IF lead = 224 THEN b2 >= 160 /\ b2 < 192
    ELSE IF lead = 240 THEN b2 >= 144 /\ b2 < 192
    ELSE IF lead = 244 THEN b2 >= 128 /\ b2 < 144
    ELSE IsCont(b2)

\* the sequence b[1..n] is a well-formed UTF-8 sequence
well_formed(b, n) ==
    /\ n > 0
    /\ Len(b) >= n
    /\ \A i \in 2 .. n : IsCont(b[i])
    /\ n >= 2 => second_ok(b[1], b[2])

decode_one(b, n) ==
    IF n = 1 THEN b[1]
    ELSE IF n = 2 THEN (b[1] - 192) * 64 + (b[2] - 128)
    ELSE IF n = 3 THEN (b[1] - 224) * 4096 + (b[2] - 128) * 64 + (b[3] - 128)
    ELSE (b[1] - 240) * 262144 + (b[2] - 128) * 4096 + (b[3] - 128) * 64 + (b[4] - 128)

RECURSIVE can_decode(_)
can_decode(b) ==
    IF b = <<>> THEN TRUE
    ELSE LET n == lead_len(b[1]) IN
         /\ well_formed(b, n)
         /\ ~IsSurrogate(decode_one(b, n))
         /\ can_decode(SubSeq(b, n + 1, Len(b)))

RECURSIVE decode(_)
decode(b) ==
    IF b = <<>> THEN <<>>
    ELSE LET n == lead_len(b[1]) IN
         <<decode_one(b, n)>> \o decode(SubSeq(b, n + 1, Len(b)))

----------------------------------------------------------------------------
(* cryptography.fernet.Fernet: an authenticated cipher.  A ciphertext      *)
(* names the key it was made under; its IV and timestamp are left out.     *)

encrypt(k, data) == [key |-> k, data |-> data]

\* a cipher that does not authenticate: every ciphertext decrypts under every key
can_decrypt_any(k, ct) == TRUE

\* Fernet.decrypt raises InvalidToken unless the ciphertext authenticates under k
can_decrypt(k, ct) == ct.key = k

decrypt(k, ct) == ct.data

----------------------------------------------------------------------------
(* str.split, str(datetime) and datetime.fromisoformat *)

\* the index of the first sep in s, 0 when there is none
RECURSIVE find_from(_, _, _)
find_from(s, sep, i) ==
    IF i > Len(s) THEN 0
    ELSE IF s[i] = sep THEN i
    ELSE find_from(s, sep, i + 1)

find(s, sep) == find_from(s, sep, 1)

\* s.split(sep): every piece between separators
RECURSIVE split(_, _)
split(s, sep) ==
    LET i == find(s, sep) IN
    IF i = 0 THEN <<s>>
    ELSE <<SubSeq(s, 1, i - 1)>> \o split(SubSeq(s, i + 1, Len(s)), sep)

\* s.split(sep, 1): cut at the first separator only
split_once(s, sep) ==
    LET i == find(s, sep) IN
    IF i = 0 THEN <<s>>
    ELSE <<SubSeq(s, 1, i - 1), SubSeq(s, i + 1, Len(s))>>

IsDigit(c) == c >= 48 /\ c <= 57

\* str(datetime): fixed-width decimal fields.  Here the fields of the date and
\* time, "YYYY-MM-DD HH:MM:SS", are two digits, the hour count.
format_datetime(t) == <<48 + (t \div 10), 48 + (t % 10)>>

\* datetime.fromisoformat works on the UTF-8 bytes of the string as a C string:
\* the byte at b[i], the terminating NUL past the end
At(b, i) == IF i <= Len(b) THEN b[i] ELSE 0

\* parse_digits: n decimal digits at b[p]
all_digits(b, p, n) == \A j \in p .. p + n - 1 : IsDigit(At(b, j))

RECURSIVE digits_value(_, _, _)
digits_value(b, p, n) ==
    IF n = 0 THEN 0
    ELSE digits_value(b, p, n - 1) * 10 + (At(b, p + n - 1) - 48)

\* while (isdigit(*p)) ++p
RECURSIVE skip_digits(_, _)
skip_digits(b, p) == IF IsDigit(At(b, p)) THEN skip_digits(b, p + 1) ELSE p

RECURSIVE pow10(_)
pow10(n) == IF n = 0 THEN 1 ELSE 10 * pow10(n - 1)

\* what parse_hh_mm_ss_ff hands back: rv below 0 for a malformed string, 1 when
\* something is left after what it read, 0 otherwise; the fields; the microseconds
Parsed(rv, vals, us) == [rv |-> rv, vals |-> vals, microsecond |-> us]

\* parse_hh_mm_ss_ff, the fractional component from b[p] to before b[p_end]:
\* up to six digits are read, further digits skipped
parse_fraction(b, p, p_end, vals) ==
    LET len_remains == p_end - p
        to_parse == IF len_remains >= 6 THEN 6 ELSE len_remains IN
    IF ~all_digits(b, p, to_parse) THEN Parsed(-3, vals, 0)
    ELSE Parsed(IF At(b, skip_digits(b, p + to_parse)) # 0 THEN 1 ELSE 0,
                vals,
                digits_value(b, p, to_parse) * pow10(6 - to_parse))

\* parse_hh_mm_ss_ff, the loop over HH, MM and SS.  parse_field reads the two
\* digits of field i (0, 1, 2) at b[p]; after_field looks at the byte after
\* them: the end, the separator (wanted if and only if one followed HH), a
\* fraction mark, or the next field.  After SS the loop has ended and what
\* comes is read as the fraction.
RECURSIVE parse_field(_, _, _, _, _, _)
after_field(b, p, p_end, i, has_separator, vals) ==
    LET c == At(b, p)
        sep == IF i = 0 THEN c = 58 ELSE has_separator
        q == p + 1 IN
    IF q >= p_end THEN Parsed(IF c # 0 THEN 1 ELSE 0, vals, 0)
    ELSE IF sep /\ c = 58
    THEN IF i = 2 THEN parse_fraction(b, q, p_end, vals)
         ELSE parse_field(b, q, p_end, i + 1, sep, vals)
    ELSE IF c = 46 \/ c = 44 THEN parse_fraction(b, q, p_end, vals)
    ELSE IF ~sep
    THEN IF i = 2 THEN parse_fraction(b, p, p_end, vals)
         ELSE parse_field(b, p, p_end, i + 1, sep, vals)
    ELSE Parsed(-4, vals, 0)

parse_field(b, p, p_end, i, has_separator, vals) ==
    IF ~all_digits(b, p, 2) THEN Parsed(-3, vals, 0)
    ELSE after_field(b, p + 2, p_end, i, has_separator,
                     [vals EXCEPT ![i + 1] = digits_value(b, p, 2)])

\* the first "Z", "+" or "-" from b[p] on, Len(b) + 1 when there is none
RECURSIVE find_tzinfo(_, _)
find_tzinfo(b, p) ==
    IF p > Len(b) THEN p
    ELSE IF b[p] = 90 \/ b[p] = 43 \/ b[p] = 45 THEN p
    ELSE find_tzinfo(b, p + 1)

\* a timedelta a timezone can be made of: less than 24 hours
offset_in_range(vals) == vals[1] * 3600 + vals[2] * 60 + vals[3] < 86400

\* parse_isoformat_time on the bytes of the string, entered after the seconds
\* field (b[1], b[2] here): the time up to the UTC offset, then "Z" or a sign
\* and the offset.  ok: the string parses; aware: it has an offset.
parse_isoformat_time(b) ==
    LET p_end == Len(b) + 1
        tzinfo_pos == find_tzinfo(b, 3)
        time == after_field(b, 3, tzinfo_pos, 2, TRUE, <<0, 0, 0>>)
        offset == parse_field(b, tzinfo_pos + 1, p_end, 0, TRUE, <<0, 0, 0>>) IN
    IF time.rv < 0
    THEN [ok |-> FALSE, aware |-> FALSE, microsecond |-> 0]
    ELSE IF tzinfo_pos = p_end
    THEN [ok |-> time.rv # 1, aware |-> FALSE, microsecond |-> time.microsecond]
    ELSE IF b[tzinfo_pos] = 90
    THEN [ok |-> At(b, tzinfo_pos + 1) = 0, aware |-> TRUE,
          microsecond |-> time.microsecond]
    ELSE [ok |-> offset.rv = 0 /\ offset_in_range(offset.vals), aware |-> TRUE,
          microsecond |-> time.microsecond]

\* datetime.fromisoformat raises ValueError unless the string is an ISO
\* timestamp: the date and time (the two digits), then whatever the parser
\* takes after the seconds
is_isoformat(s) ==
    /\ Len(s) >= 2
    /\ IsDigit(s[1])
    /\ IsDigit(s[2])
    /\ can_encode(s)
    /\ parse_isoformat_time(encode(s)).ok

\* the datetime fromisoformat returns is aware when the string has an offset
is_aware(s) == parse_isoformat_time(encode(s)).aware

\* the datetime fromisoformat returns: its hour count and its microseconds
fromisoformat(s) == (s[1] - 48) * 10 + (s[2] - 48)

microsecond(s) == parse_isoformat_time(encode(s)).microsecond

\* datetime.now() < expiry_time for a naive expiry_time; the clock shows whole hours
now_before(s) == now < fromisoformat(s) \/ (now = fromisoformat(s) /\ microsecond(s) > 0)

\* f"{reset_token}|{expiry}"
format_hint(reset_token, expiry) == reset_token \o <<Pipe>> \o format_datetime(expiry)

----------------------------------------------------------------------------
(* The SQLite file *)

\* CREATE TABLE IF NOT EXISTS user_biometrics (ledger_backend.py)
setup_database(t) == t \cup {"user_biometrics"}

\* CREATE TABLE IF NOT EXISTS user_credentials (app.py)
app_setup_database(t) == t \cup {"user_credentials"}

\* LedgerBackend.__init__ of the class the process uses
init_tables(b, t) == IF b = "app" THEN app_setup_database(t) ELSE setup_database(t)

\* a plain INSERT on a table without the primary key: the old row stays
insert_keeping(rows, row) == rows \cup {row}

\* INSERT OR REPLACE on a table whose primary key is user_id
insert_or_replace(rows, row) ==
    {r \in rows : r.user_id # row.user_id} \cup {row}

\* SELECT ... WHERE user_id=? followed by fetchone()
fetchone(rows, user_id) ==
    LET hit == {r \in rows : r.user_id = user_id} IN
    IF hit = {} THEN None ELSE CHOOSE r \in hit : TRUE

\* UPDATE user_credentials SET hint=? WHERE user_id=?
update_hint(rows, user_id, hint) ==
    {IF r.user_id = user_id THEN [r EXCEPT !.hint = hint] ELSE r : r \in rows}

\* a log record: its level, its fixed text and the values formatted into it
Entry(level, msg, values) == [level |-> level, msg |-> msg, values |-> values]

\* an outcome of a backend method: the exception it raised ("" for none), what it
\* returned, the rows of user_credentials it leaves and what it logged
Outcome(exc, ret, rows, lg) == [exc |-> exc, ret |-> ret, rows |-> rows, log |-> lg]

----------------------------------------------------------------------------
(* LedgerBackend: credentials *)

store_credentials(user_id, username, password, hint) ==
    IF ~can_encode(username) \/ ~can_encode(password)
    THEN Outcome("UnicodeEncodeError", None, user_credentials, <<>>)
    ELSE IF "user_credentials" \notin tables
    THEN Outcome("OperationalError", None, user_credentials, <<>>)
    \* execute prepares the statement, then binds the hint as UTF-8 text
    ELSE IF ~can_encode(hint)
    THEN Outcome("UnicodeEncodeError", None, user_credentials, <<>>)
    ELSE Outcome("", None,
                 insert_or_replace(user_credentials,
                     [user_id |-> user_id,
                      encrypted_username |-> encrypt(key, encode(username)),
                      encrypted_password |-> encrypt(key, encode(password)),
                      hint |-> hint,
                      \* sqlite3 stores Python's False as the integer 0
                      biometric_enabled |-> 0]),
                 <<Entry("info", "Stored credentials for user", <<user_id>>)>>)

\* retrieve_credentials reading the two columns in the wrong order
retrieve_swapped(user_id) ==
    IF "user_credentials" \notin tables
    THEN Outcome("OperationalError", None, user_credentials, <<>>)
    ELSE LET row == fetchone(user_credentials, user_id) IN
    IF row = None
    THEN Outcome("", None, user_credentials, <<>>)
    ELSE IF ~can_decrypt(key, row.encrypted_username)
            \/ ~can_decrypt(key, row.encrypted_password)
    THEN Outcome("InvalidToken", None, user_credentials, <<>>)
    ELSE Outcome("",
                 [tag |-> "dict",
                  username |-> decode(decrypt(key, row.encrypted_password)),
                  password |-> decode(decrypt(key, row.encrypted_username)),
                  hint |-> row.hint,
                  biometric_enabled |-> row.biometric_enabled],
                 user_credentials, <<>>)

retrieve_credentials(user_id) ==
    IF "user_credentials" \notin tables
    THEN Outcome("OperationalError", None, user_credentials, <<>>)
    ELSE LET row == fetchone(user_credentials, user_id) IN
    IF row = None
    THEN Outcome("", None, user_credentials, <<>>)
    ELSE IF ~can_decrypt(key, row.encrypted_username)
    THEN Outcome("InvalidToken", None, user_credentials, <<>>)
    ELSE IF ~can_decode(decrypt(key, row.encrypted_username))
    THEN Outcome("UnicodeDecodeError", None, user_credentials, <<>>)
    ELSE IF ~can_decrypt(key, row.encrypted_password)
    THEN Outcome("InvalidToken", None, user_credentials, <<>>)
    ELSE IF ~can_decode(decrypt(key, row.encrypted_password))
    THEN Outcome("UnicodeDecodeError", None, user_credentials, <<>>)
    ELSE Outcome("",
                 [tag |-> "dict",
                  username |-> decode(decrypt(key, row.encrypted_username)),
                  password |-> decode(decrypt(key, row.encrypted_password)),
                  hint |-> row.hint,
                  biometric_enabled |-> row.biometric_enabled],
                 user_credentials, <<>>)

----------------------------------------------------------------------------
(* LedgerBackend: reset tokens.  reset_token is what secrets.token_urlsafe *)
(* returned.                                                               *)

issue_token(user_id, reset_token) ==
    LET expiry == now + TokenLifetimeHours IN
    Outcome("",
            [tag |-> "dict", token |-> reset_token, expiry |-> expiry],
            update_hint(user_credentials, user_id, format_hint(reset_token, expiry)),
            <<>>)

\* ledger_backend.py, reset_password up to the token: the lookup is inside the
\* try, every exception becomes None; a record found is returned to go on with
reset_password_lookup(user_id) ==
    LET existing == retrieve_credentials(user_id) IN
    IF existing.exc # ""
    THEN Outcome("", None, user_credentials,
                 <<Entry("error", "Password reset failed", <<existing.exc>>)>>)
    ELSE IF existing.ret = None
    THEN Outcome("", None, user_credentials,
                 <<Entry("warning", "No user found for", <<user_id>>)>>)
    ELSE existing

\* app.py: the lookup is outside the try, its exceptions reach the caller
app_reset_password_lookup(user_id) ==
    LET creds == retrieve_credentials(user_id) IN
    IF creds.exc # ""
    THEN Outcome(creds.exc, None, user_credentials, <<>>)
    ELSE IF creds.ret = None
    THEN Outcome("", None, user_credentials,
                 <<Entry("warning", "No user found for", <<user_id>>)>>)
    ELSE creds

\* reset_password from the token on, in both classes inside the try: a second
\* connection, the UPDATE on the rows as they are by then, the commit
reset_password_update(user_id, reset_token) ==
    IF "user_credentials" \notin tables
    THEN Outcome("", None, user_credentials,
                 <<Entry("error", "Password reset failed", <<"OperationalError">>)>>)
    ELSE issue_token(user_id, reset_token)

\* verify_reset_token comparing the clock with <= instead of <
verify_reset_token_late(user_id, token) ==
    IF "user_credentials" \notin tables
    THEN Outcome("OperationalError", None, user_credentials, <<>>)
    ELSE LET row == fetchone(user_credentials, user_id) IN
    IF row = None \/ row.hint = <<>>
    THEN Outcome("", Bool(FALSE), user_credentials, <<>>)
    ELSE LET stored == split(row.hint, Pipe) IN
    IF Len(stored) # 2
    THEN Outcome("", Bool(FALSE), user_credentials, <<>>)
    ELSE IF ~is_isoformat(stored[2])
    THEN Outcome("", Bool(FALSE), user_credentials, <<>>)
    ELSE IF token # stored[1]
    THEN Outcome("", Bool(FALSE), user_credentials, <<>>)
    \* datetime.now() is naive: comparing it with an aware datetime raises
    ELSE IF is_aware(stored[2])
    THEN Outcome("TypeError", None, user_credentials, <<>>)
    ELSE Outcome("", Bool(now <= fromisoformat(stored[2])), user_credentials, <<>>)

\* ledger_backend.py: split on every separator, exactly two pieces wanted
verify_reset_token(user_id, token) ==
    IF "user_credentials" \notin tables
    THEN Outcome("OperationalError", None, user_credentials, <<>>)
    ELSE LET row == fetchone(user_credentials, user_id) IN
    IF row = None \/ row.hint = <<>>
    THEN Outcome("", Bool(FALSE), user_credentials, <<>>)
    ELSE LET stored == split(row.hint, Pipe) IN
    IF Len(stored) # 2
    THEN Outcome("", Bool(FALSE), user_credentials, <<>>)
    ELSE IF ~is_isoformat(stored[2])
    THEN Outcome("", Bool(FALSE), user_credentials, <<>>)
    ELSE IF token # stored[1]
    THEN Outcome("", Bool(FALSE), user_credentials, <<>>)
    \* datetime.now() is naive: comparing it with an aware datetime raises
    ELSE IF is_aware(stored[2])
    THEN Outcome("TypeError", None, user_credentials, <<>>)
    ELSE Outcome("", Bool(now_before(stored[2])), user_credentials, <<>>)

\* app.py: cut at the first separator
app_verify_reset_token(user_id, token) ==
    IF "user_credentials" \notin tables
    THEN Outcome("OperationalError", None, user_credentials, <<>>)
    ELSE LET row == fetchone(user_credentials, user_id) IN
    IF row = None \/ row.hint = <<>>
    THEN Outcome("", Bool(FALSE), user_credentials, <<>>)
    ELSE IF find(row.hint, Pipe) = 0
    THEN Outcome("", Bool(FALSE), user_credentials, <<>>)
    ELSE LET stored == split_once(row.hint, Pipe) IN
    IF ~is_isoformat(stored[2])
    THEN Outcome("", Bool(FALSE), user_credentials, <<>>)
    ELSE IF token # stored[1]
    THEN Outcome("", Bool(FALSE), user_credentials, <<>>)
    \* datetime.now() is naive: comparing it with an aware datetime raises
    ELSE IF is_aware(stored[2])
    THEN Outcome("TypeError", None, user_credentials, <<>>)
    ELSE Outcome("", Bool(now_before(stored[2])), user_credentials, <<>>)

\* the method of the class the running process uses
issue_lookup(user_id) ==
    IF backend = "app" THEN app_reset_password_lookup(user_id)
    ELSE reset_password_lookup(user_id)

\* a single-use verify: a token that verifies is wiped from the hint column
verify_consuming(user_id, token) ==
    LET out == IF backend = "app" THEN app_verify_reset_token(user_id, token)
               ELSE verify_reset_token(user_id, token) IN
    IF out.ret = Bool(TRUE)
    THEN [out EXCEPT !.rows = update_hint(user_credentials, user_id, <<>>)]
    ELSE out

verify(user_id, token) ==
    IF backend = "app" THEN app_verify_reset_token(user_id, token)
    ELSE verify_reset_token(user_id, token)

----------------------------------------------------------------------------
(* LedgerBackend: biometrics (ledger_backend.py only).  An image is what   *)
(* the face_recognition package makes of the file: whether it loads, and   *)
(* the encodings face_encodings finds in it, in detector order.            *)

\* the names the import statements of ledger_backend.py bind
ModuleGlobals == {"sqlite3", "logging", "Fernet", "secrets", "datetime", "timedelta"}

\* the binary digits of n, most significant first
RECURSIVE bin(_)
bin(n) == IF n < 2 THEN <<n>> ELSE bin(n \div 2) \o <<n % 2>>

\* n in width binary digits
RECURSIVE to_bits(_, _)
to_bits(n, width) ==
    IF width = 0 THEN <<>> ELSE to_bits(n \div 2, width - 1) \o <<n % 2>>

\* the number a sequence of binary digits writes
RECURSIVE from_bits(_)
from_bits(bits) ==
    IF bits = <<>> THEN 0
    ELSE 2 * from_bits(SubSeq(bits, 1, Len(bits) - 1)) + bits[Len(bits)]

\* a component of a face encoding is a numpy float64, here one of integral
\* value x: its sign, the 11 binary digits of the exponent, the 52 of the mantissa
float64_bits(x) ==
    LET n == IF x < 0 THEN -x ELSE x
        sign == IF x < 0 THEN 1 ELSE 0 IN
    IF n = 0 THEN [i \in 1 .. 64 |-> 0]
    ELSE LET digits == bin(n)
             e == Len(digits) - 1 IN
         <<sign>> \o to_bits(e + 1023, 11) \o Tail(digits) \o [i \in 1 .. 52 - e |-> 0]

\* its eight bytes, the least significant first
float64_bytes(x) ==
    LET bits == float64_bits(x) IN
    [k \in 1 .. 8 |-> from_bits(SubSeq(bits, 8 * (8 - k) + 1, 8 * (8 - k) + 8))]

\* ndarray.tobytes(): the eight bytes of every component, in order
RECURSIVE tobytes(_)
tobytes(v) ==
    IF v = <<>> THEN <<>>
    ELSE float64_bytes(Head(v)) \o tobytes(Tail(v))

BioOutcome(exc, ret, rows, lg) == [exc |-> exc, ret |-> ret, rows |-> rows, log |-> lg]

\* the except branch of enroll_user_biometrics
enroll_failed(user_id, e) ==
    BioOutcome("", Bool(FALSE), user_biometrics,
               <<Entry("error", "Error enrolling biometrics for user", <<user_id, e>>)>>)

enroll_user_biometrics(user_id, image) ==
    IF "face_recognition" \notin ModuleGlobals
    THEN enroll_failed(user_id, "NameError")
    ELSE IF ~image.readable
    THEN enroll_failed(user_id, "FileNotFoundError")
    ELSE IF Len(image.faces) = 0
    THEN BioOutcome("", Bool(FALSE), user_biometrics,
                    <<Entry("error", "No face detected in image for user", <<user_id>>)>>)
    ELSE IF "user_biometrics" \notin tables
    THEN enroll_failed(user_id, "OperationalError")
    ELSE BioOutcome("", Bool(TRUE),
                    insert_or_replace(user_biometrics,
                        [user_id |-> user_id,
                         face_encoding |-> tobytes(image.faces[1])]),
                    <<Entry("info", "Biometric data enrolled for user", <<user_id>>)>>)

\* the except branch of authenticate_user_with_biometrics
authenticate_failed(e) ==
    BioOutcome("", None, user_biometrics,
               <<Entry("error", "Error during biometric authentication", <<e>>)>>)

\* the branch of authenticate_user_with_biometrics for an image without a face
authenticate_no_face ==
    BioOutcome("", None, user_biometrics,
               <<Entry("error", "No face detected in image.", <<>>)>>)

\* the end of authenticate_user_with_biometrics, after the loop found no match
authenticate_no_match ==
    BioOutcome("", None, user_biometrics,
               <<Entry("info", "No match found for input image.", <<>>)>>)

\* authenticate_user_with_biometrics(image_path). The loop hands
\* face_encodings a list holding the stored bytes, which is no image: the
\* first stored row makes it raise, so only an empty table reaches the end.
authenticate_user_with_biometrics(image) ==
    IF "face_recognition" \notin ModuleGlobals
    THEN authenticate_failed("NameError")
    ELSE IF ~image.readable
    THEN authenticate_failed("FileNotFoundError")
    ELSE IF Len(image.faces) = 0
    THEN authenticate_no_face
    ELSE IF "user_biometrics" \notin tables
    THEN authenticate_failed("OperationalError")
    ELSE IF user_biometrics # {}
    THEN authenticate_failed("TypeError")
    ELSE authenticate_no_match

----------------------------------------------------------------------------
(* app_api.py: the HTTP handlers, over a ledger_backend.LedgerBackend.     *)
(* A request body is the set of keys it holds and their values.            *)

Response(status, body) == [tag |-> "response", status |-> status, body |-> body]

\* POST /api/store_credentials
api_store_credentials(data) ==
    LET hint == IF "hint" \in data.keys THEN data.hint ELSE <<>> IN
    IF \/ "user_id" \notin data.keys \/ data.user_id = ""
       \/ "username" \notin data.keys \/ data.username = <<>>
       \/ "password" \notin data.keys \/ data.password = <<>>
    THEN Outcome("", Response(400, "Missing required fields"), user_credentials, <<>>)
    ELSE LET out == store_credentials(data.user_id, data.username, data.password, hint) IN
         IF out.exc # "" THEN out
         ELSE Outcome("", Response(200, "Credentials stored successfully"),
                      out.rows, out.log)

\* GET /api/retrieve_credentials/<user_id>
api_retrieve_credentials(user_id) ==
    LET creds == retrieve_credentials(user_id) IN
    IF creds.exc # "" THEN creds
    ELSE IF creds.ret = None
    THEN Outcome("", Response(404, "User not found"), user_credentials, <<>>)
    ELSE Outcome("", Response(200, creds.ret), user_credentials, <<>>)

----------------------------------------------------------------------------
(* The inputs the model draws from *)

UserIds == {"u1", "u2"}
\* a user id nothing is ever stored for
Ghost == "ghost"
AllUserIds == UserIds \cup {"", Ghost}

\* "a", "p", "q", the two-character text e-acute euro, a lone surrogate
TextA == <<97>>
TextP == <<112>>
TextQ == <<113>>
TextAccent == <<233, 8364>>
TextSurrogate == <<55296>>

\* <<username, password>>
Credentials ==
    {<<TextA, TextP>>, <<TextAccent, TextQ>>, <<<<>>, TextP>>, <<TextA, <<>>>>,
     <<TextSurrogate, TextP>>}

\* what secrets.token_urlsafe can return: "A", "B"
TokenA == <<65>>
TokenB == <<66>>
Tokens == {TokenA, TokenB}

\* the strings verify is asked about: the tokens, "C", "", "A|", "A|36"
Probes == Tokens \cup {<<67>>, <<>>, <<65, 124>>, <<65, 124, 51, 54>>}

\* hints of the token runs: "", "A|99", "A|99+01:00"
TokenHints ==
    {<<>>, <<65, 124, 57, 57>>, <<65, 124, 57, 57, 43, 48, 49, 58, 48, 48>>}

\* hints a caller can craft: "h", "A|99", "A|zz", "B|00|99", "A|99+01:00",
\* "A|12.5", "A|99x-0530"
CraftedHints ==
    {<<104>>, <<65, 124, 57, 57>>, <<65, 124, 122, 122>>,
     <<66, 124, 48, 48, 124, 57, 57>>,
     <<65, 124, 57, 57, 43, 48, 49, 58, 48, 48>>,
     <<65, 124, 49, 50, 46, 53>>,
     <<65, 124, 57, 57, 120, 45, 48, 53, 51, 48>>}

NoFace == [readable |-> TRUE, faces |-> <<>>]
OneFace == [readable |-> TRUE, faces |-> <<<<3, 300>>>>]
TwoFaces == [readable |-> TRUE, faces |-> <<<<7, 1>>, <<3, 300>>>>]
Unreadable == [readable |-> FALSE, faces |-> <<>>]
Images == {NoFace, OneFace, TwoFaces, Unreadable}

BodyKeys == {"user_id", "username", "password", "hint"}
Body(keys, user_id, username, password, hint) ==
    [keys |-> keys, user_id |-> user_id, username |-> username,
     password |-> password, hint |-> hint]

\* request bodies: complete ones, one with an empty user_id, ones with a key missing
ApiBodies ==
    {Body(BodyKeys, "u1", c[1], c[2], <<104>>) : c \in Credentials}
    \cup {Body(BodyKeys, "", TextA, TextP, <<104>>)}
    \cup {Body(BodyKeys \ {k}, "u2", TextA, TextP, <<104>>) : k \in BodyKeys}

----------------------------------------------------------------------------
(* The state after the first LedgerBackend() on a new database file *)

Call(op, user_id, input, out) ==
    [op |-> op, user_id |-> user_id, input |-> input, exc |-> out.exc, ret |-> out.ret]

\* no reset_password under way
NonePending == [own |-> {}, others |-> [u \in AllUserIds |-> 0]]

SetupLog == <<Entry("info", "Database setup complete.", <<>>)>>

Init ==
    /\ backend \in Backends
    /\ key \in Keys
    /\ tables = init_tables(backend, {})
    /\ user_credentials = {}
    /\ user_biometrics = {}
    /\ now = 0
    /\ call = [op |-> "start", user_id |-> "", input |-> backend, exc |-> "", ret |-> None]
    /\ log = SetupLog
    /\ saved = [u \in AllUserIds |-> None]
    /\ active = [u \in AllUserIds |-> None]
    /\ pending = NonePending
    /\ verified = [u \in AllUserIds |-> None]

----------------------------------------------------------------------------
(* The steps *)

\* the process of a reset_password that has looked the user up and not yet
\* written the token is inside that call: it makes no other call
Busy == pending.own # {}

\* the number of reset_password calls under way
RECURSIVE SumOver(_, _)
SumOver(f, S) ==
    IF S = {} THEN 0
    ELSE LET u == CHOOSE x \in S : TRUE IN f[u] + SumOver(f, S \ {u})

PendingCount == Cardinality(pending.own) + SumOver(pending.others, DOMAIN pending.others)

\* the calls under way once another process has started
Released(p) ==
    [own |-> {},
     others |-> [u \in DOMAIN p.others |->
                    p.others[u] + IF u \in p.own THEN 1 ELSE 0]]

\* a process starts on the same file, LedgerBackend.__init__, and the calls that
\* follow are its calls: the process before it has ended, or, being the kiosk
\* or the API, goes on beside it and finishes the reset_password it was in
Start(b, k) ==
    /\ pending' = Released(pending)
    /\ backend' = b
    /\ key' = k
    /\ tables' = init_tables(b, tables)
    /\ call' = [op |-> "start", user_id |-> "", input |-> b, exc |-> "", ret |-> None]
    /\ log' = SetupLog
    /\ saved' = [u \in AllUserIds |-> None]
    /\ UNCHANGED <<user_credentials, user_biometrics, now, active, verified>>

\* the history after a store that wrote the record of user_id
Stored(user_id, username, password) ==
    /\ saved' = [saved EXCEPT ![user_id] =
                    [tag |-> "creds", username |-> username, password |-> password]]
    /\ active' = [active EXCEPT ![user_id] = None]
    /\ verified' = [verified EXCEPT ![user_id] = None]

\* backend.store_credentials(user_id, username, password, hint)
Store(user_id, username, password, hint) ==
    LET out == store_credentials(user_id, username, password, hint) IN
    /\ ~Busy
    /\ user_credentials' = out.rows
    /\ call' = Call("store", user_id,
                    [username |-> username, password |-> password, hint |-> hint,
                     \* history: the rows of user_id before the call
                     before |-> {r \in user_credentials : r.user_id = user_id}], out)
    /\ log' = out.log
    /\ IF out.exc = "" THEN Stored(user_id, username, password)
       ELSE UNCHANGED <<saved, active, verified>>
    /\ UNCHANGED <<tables, user_biometrics, backend, key, now, pending>>

\* backend.retrieve_credentials(user_id)
Retrieve(user_id) ==
    LET out == retrieve_credentials(user_id) IN
    /\ ~Busy
    /\ call' = Call("retrieve", user_id, <<>>, out)
    /\ log' = out.log
    /\ UNCHANGED <<tables, user_credentials, user_biometrics, backend, key, now,
                   saved, active, pending, verified>>

\* backend.reset_password(user_id), first transaction: the lookup of the user
\* on a connection of its own.  A lookup that finds no record or fails ends
\* the call; one that finds the record leaves the call under way, the
\* database released.
IssueLookup(user_id) ==
    LET out == issue_lookup(user_id) IN
    /\ ~Busy
    /\ IF out.exc # "" \/ out.ret = None
       THEN /\ call' = Call("issue", user_id, active[user_id], out)
            /\ log' = out.log
            /\ UNCHANGED pending
       ELSE /\ PendingCount < MaxPending
            /\ pending' = [pending EXCEPT !.own = {user_id}]
            /\ UNCHANGED <<call, log>>
    /\ UNCHANGED <<tables, user_credentials, user_biometrics, backend, key, now,
                   saved, active, verified>>

\* a reset_password under way, that of the process making the calls (own) or
\* one of a process beside it, second transaction: secrets.token_urlsafe
\* returns reset_token, the UPDATE is committed, the call returns
IssueUpdate(user_id, own, reset_token) ==
    /\ IF own THEN user_id \in pending.own ELSE pending.others[user_id] > 0
    /\ LET out == reset_password_update(user_id, reset_token) IN
       /\ user_credentials' = out.rows
       \* history: what the issue before this one returned
       /\ call' = Call("issue", user_id, active[user_id], out)
       /\ log' = out.log
       /\ IF out.ret # None
          THEN /\ active' = [active EXCEPT ![user_id] =
                                [tag |-> "issued", token |-> out.ret.token,
                                 expiry |-> out.ret.expiry, at |-> now]]
               /\ verified' = [verified EXCEPT ![user_id] = None]
          ELSE UNCHANGED <<active, verified>>
    /\ pending' = IF own THEN [pending EXCEPT !.own = {}]
                  ELSE [pending EXCEPT !.others[user_id] = @ - 1]
    /\ UNCHANGED <<tables, user_biometrics, backend, key, now, saved>>

\* the expiry string in the hint column of user_id: what follows the first "|"
stored_expiry(user_id) ==
    LET hint == fetchone(user_credentials, user_id).hint IN
    SubSeq(hint, find(hint, Pipe) + 1, Len(hint))

\* backend.verify_reset_token(user_id, token)
Verify(user_id, token) ==
    LET out == verify(user_id, token) IN
    /\ ~Busy
    /\ user_credentials' = out.rows
    /\ call' = Call("verify", user_id, token, out)
    /\ log' = out.log
    \* history: the first time this token verifies since the last store or issue
    /\ verified' = IF /\ out.ret = Bool(TRUE)
                      /\ \/ verified[user_id] = None
                         \/ verified[user_id].token # token
                   THEN [verified EXCEPT ![user_id] =
                            [token |-> token, expiry |-> stored_expiry(user_id),
                             at |-> now]]
                   ELSE verified
    /\ UNCHANGED <<tables, user_biometrics, backend, key, now, saved, active, pending>>

\* backend.enroll_user_biometrics(user_id, image_path), a method of
\* ledger_backend.LedgerBackend only
Enroll(user_id, image) ==
    /\ backend = "ledger_backend"
    /\ ~Busy
    /\ LET out == enroll_user_biometrics(user_id, image) IN
       /\ user_biometrics' = out.rows
       /\ call' = Call("enroll", user_id, image, out)
       /\ log' = out.log
    /\ UNCHANGED <<tables, user_credentials, backend, key, now, saved, active,
                   pending, verified>>

\* backend.authenticate_user_with_biometrics(image_path), a method of
\* ledger_backend.LedgerBackend only; it takes no user id
Authenticate(image) ==
    /\ backend = "ledger_backend"
    /\ ~Busy
    /\ LET out == authenticate_user_with_biometrics(image) IN
       /\ call' = Call("authenticate", "", image, out)
       /\ log' = out.log
    /\ UNCHANGED <<tables, user_credentials, user_biometrics, backend, key, now,
                   saved, active, pending, verified>>

\* POST /api/store_credentials, served by a ledger_backend.LedgerBackend
ApiStore(data) ==
    /\ backend = "ledger_backend"
    /\ ~Busy
    /\ LET out == api_store_credentials(data) IN
       /\ user_credentials' = out.rows
       /\ call' = Call("api_store", data.user_id, data, out)
       /\ log' = out.log
       /\ IF out.exc = "" /\ out.ret.status = 200
          THEN Stored(data.user_id, data.username, data.password)
          ELSE UNCHANGED <<saved, active, verified>>
    /\ UNCHANGED <<tables, user_biometrics, backend, key, now, pending>>

\* GET /api/retrieve_credentials/<user_id>
ApiRetrieve(user_id) ==
    /\ backend = "ledger_backend"
    /\ ~Busy
    /\ LET out == api_retrieve_credentials(user_id) IN
       /\ call' = Call("api_retrieve", user_id, <<>>, out)
       /\ log' = out.log
    /\ UNCHANGED <<tables, user_credentials, user_biometrics, backend, key, now,
                   saved, active, pending, verified>>

\* time passes
Tick ==
    /\ now + TickHours <= MaxTicks * TickHours
    /\ now' = now + TickHours
    /\ call' = [op |-> "tick", user_id |-> "", input |-> <<>>, exc |-> "", ret |-> None]
    /\ log' = <<>>
    /\ UNCHANGED <<tables, user_credentials, user_biometrics, backend, key,
                   saved, active, pending, verified>>

----------------------------------------------------------------------------
(* The vault runs: the backend methods on varied credentials, with one      *)
(* token and no clock, and processes side by side.                          *)

StartAny == \E b \in Backends, k \in Keys : Start(b, k)

\* u1: "a"/"p" without hint, e-acute euro/"q" with hint "h", a lone surrogate
\* as username and as hint; u2: "q"/"p"
StoreVault ==
    \/ Store("u1", TextA, TextP, <<>>)
    \/ Store("u1", TextAccent, TextQ, <<104>>)
    \/ Store("u1", TextSurrogate, TextP, <<>>)
    \/ Store("u1", TextA, TextP, TextSurrogate)
    \/ Store("u2", TextQ, TextP, <<>>)

RetrieveVault == \E u \in UserIds : Retrieve(u)

IssueVault ==
    \/ \E u \in UserIds : IssueLookup(u)
    \/ \E u \in UserIds, own \in BOOLEAN : IssueUpdate(u, own, TokenA)

VerifyVault == \E t \in {TokenA, <<67>>} : Verify("u1", t)

Next ==
    \/ StartAny
    \/ StoreVault
    \/ RetrieveVault
    \/ IssueVault
    \/ VerifyVault

Spec == Init /\ [][Next]_vars

----------------------------------------------------------------------------
(* The API runs: the HTTP handlers of app_api.py beside the backend methods *)
(* they call, on complete and incomplete requests, with one token.          *)

\* every pair of Credentials for u1, and an empty user_id
StoreApi ==
    \/ \E c \in Credentials : Store("u1", c[1], c[2], <<>>)
    \/ Store("", TextA, TextP, <<>>)

ApiStoreVault == \E d \in ApiBodies : ApiStore(d)

RetrieveApi == Retrieve("u1")

ApiRetrieveVault == \E u \in UserIds : ApiRetrieve(u)

IssueApi ==
    \/ IssueLookup("u1")
    \/ \E own \in BOOLEAN : IssueUpdate("u1", own, TokenA)

NextApi ==
    \/ StartAny
    \/ StoreApi
    \/ ApiStoreVault
    \/ RetrieveApi
    \/ ApiRetrieveVault
    \/ IssueApi

SpecApi == Init /\ [][NextApi]_vars

----------------------------------------------------------------------------
(* The biometric runs: ledger_backend.py's enrolment and authentication on  *)
(* every kind of image, beside a store and the process starts.              *)

StoreBiometrics == Store("u1", TextA, TextP, <<>>)

EnrollVault == \E u \in UserIds, i \in Images : Enroll(u, i)

AuthenticateVault == \E i \in Images : Authenticate(i)

NextBiometrics ==
    \/ StartAny
    \/ StoreBiometrics
    \/ EnrollVault
    \/ AuthenticateVault

SpecBiometrics == Init /\ [][NextBiometrics]_vars

----------------------------------------------------------------------------
(* The token runs: one credential, two tokens, a clock, and processes side  *)
(* by side.  u1 has a record and is issued tokens, u2 and ghost have none.  *)

StoreTokens == \E h \in TokenHints : Store("u1", TextA, TextP, h)

IssueTokens ==
    \/ IssueLookup("u1")
    \/ IssueLookup(Ghost)
    \/ \E own \in BOOLEAN, t \in Tokens : IssueUpdate("u1", own, t)

VerifyTokens ==
    \/ \E t \in {TokenA, TokenB, <<67>>} : Verify("u1", t)
    \/ Verify("u2", TokenB)
    \/ Verify(Ghost, TokenA)

NextTokens ==
    \/ StartAny
    \/ StoreTokens
    \/ IssueTokens
    \/ VerifyTokens
    \/ Tick

SpecTokens == Init /\ [][NextTokens]_vars

----------------------------------------------------------------------------
(* The hint runs: the hints a caller of store can craft, beside the issue   *)
(* of tokens, the verify and the clock.                                     *)

StoreHints == \E h \in CraftedHints : Store("u1", TextA, TextP, h)

IssueHints ==
    \/ IssueLookup("u1")
    \/ \E own \in BOOLEAN, t \in Tokens : IssueUpdate("u1", own, t)

VerifyHints == \E t \in {TokenA, TokenB} : Verify("u1", t)

NextHints ==
    \/ StartAny
    \/ StoreHints
    \/ IssueHints
    \/ VerifyHints
    \/ Tick

SpecHints == Init /\ [][NextHints]_vars

----------------------------------------------------------------------------
(* Properties *)

RowsOf(user_id) == {r \in user_credentials : r.user_id = user_id}

\* C1: after a store of a non-empty username and password that returned, and
\* until the next store for that user or the end of the process, retrieve
\* returns exactly that username and that password
C1_RoundTrip ==
    /\ \A u \in UserIds :
         (saved[u] # None /\ saved[u].username # <<>> /\ saved[u].password # <<>>)
         => LET out == retrieve_credentials(u) IN
            /\ out.exc = ""
            /\ out.ret.tag = "dict"
            /\ out.ret.username = saved[u].username
            /\ out.ret.password = saved[u].password
    /\ (call.op = "retrieve" /\ call.user_id \in UserIds /\ saved[call.user_id] # None)
       => /\ call.exc = ""
          /\ call.ret.tag = "dict"
          /\ call.ret.username = saved[call.user_id].username
          /\ call.ret.password = saved[call.user_id].password

\* a retrieve returned a stored username of more than one UTF-8 byte per character
C1_Witness ==
    /\ call.op = "retrieve"
    /\ call.user_id = "u1"
    /\ saved["u1"] # None
    /\ saved["u1"].username = TextAccent
    /\ call.ret.tag = "dict"
    /\ call.ret.username = TextAccent
    /\ call.ret.password = TextQ

\* C2: there is at most one record per user_id, and after a store that returned
\* the record of that user_id holds that call's username, password and hint,
\* with biometric_enabled false, whatever was stored or issued before
C2_OneRecordLastWins ==
    /\ \A u \in AllUserIds : Cardinality(RowsOf(u)) <= 1
    /\ (call.op = "store" /\ call.exc = "")
       => RowsOf(call.user_id) =
            {[user_id |-> call.user_id,
              encrypted_username |-> encrypt(key, encode(call.input.username)),
              encrypted_password |-> encrypt(key, encode(call.input.password)),
              hint |-> call.input.hint,
              biometric_enabled |-> 0]}

\* a second store replaced a record whose username, password and hint all differed
C2_Witness ==
    /\ call.op = "store"
    /\ call.exc = ""
    /\ \E r \in call.input.before :
         /\ r.encrypted_username.data # encode(call.input.username)
         /\ r.encrypted_password.data # encode(call.input.password)
         /\ r.hint # call.input.hint
         /\ r.hint # <<>>
    /\ Cardinality(RowsOf(call.user_id)) = 1

\* verify returns True
Verifies(user_id, token) == verify(user_id, token).ret = Bool(TRUE)

\* the last call was an issue for user_id that returned a token
IssueReturned(user_id) ==
    call.op = "issue" /\ call.user_id = user_id /\ call.exc = "" /\ call.ret # None

\* C3: after an issue that returned (token, expiry), and until the next store or
\* issue for that user, the expiry is 24 hours after the issue and verify
\* returns True for exactly the string token, and only while now < expiry
C3_VerifyIffTokenAndFresh ==
    /\ \A u \in UserIds :
         active[u] # None
         => /\ active[u].expiry = active[u].at + 24
            /\ \A t \in Probes :
                 LET out == verify(u, t) IN
                 /\ out.exc = ""
                 /\ out.ret = Bool(t = active[u].token /\ now < active[u].expiry)
    /\ (call.op = "verify" /\ call.user_id \in UserIds /\ active[call.user_id] # None)
       => call.ret = Bool(/\ call.input = active[call.user_id].token
                          /\ now < active[call.user_id].expiry)

\* a verify of the issued token returned False after the clock had passed the
\* expiry; before, half a lifetime after the issue, a verify of it had returned
\* True
C3_Witness ==
    /\ call.op = "verify"
    /\ active[call.user_id] # None
    /\ call.input = active[call.user_id].token
    /\ verified[call.user_id] # None
    /\ verified[call.user_id].token = active[call.user_id].token
    /\ verified[call.user_id].at > active[call.user_id].at
    /\ now > active[call.user_id].expiry
    /\ call.exc = ""
    /\ call.ret = Bool(FALSE)

\* C4 as claimed: once an issue has returned a token after an earlier issue
\* returned another, the earlier token fails verify from then on: in the state
\* the second issue leaves and in the state the call after it leaves, whatever
\* call that is, short of an issue for that user; and at no time do two strings
\* verify for one user
C4_IssueReplacesToken ==
    /\ [][\A u \in UserIds, t \in Tokens :
             (/\ IssueReturned(u)
              /\ call.input # None
              /\ call.input.token = t
              /\ call.ret.token # t)
             => /\ ~Verifies(u, t)
                /\ (call'.op = "issue" /\ call'.user_id = u) \/ ~Verifies(u, t)'
          ]_vars
    /\ [](\A u \in UserIds : Cardinality({t \in Probes : Verifies(u, t)}) <= 1)

\* C5 as claimed: issue for a user_id without a record returns None (no token)
\* and changes no row, and verify returns False for that user_id and every
\* string afterwards
C5_IssueUnknownUser ==
    [][\A u \in AllUserIds :
         (call'.op = "issue" /\ call'.user_id = u /\ RowsOf(u) = {})
         => /\ call'.exc = ""
            /\ call'.ret = None
            /\ user_credentials' = user_credentials
            /\ \A t \in Probes :
                 (verify(u, t).exc = "" /\ verify(u, t).ret = Bool(FALSE))'
      ]_vars

\* C6 as claimed: a store with an empty user_id, username or password raises
\* ValidationError and leaves the rows of that user_id as they were
C6_StoreRejectsEmpty ==
    (/\ call.op = "store"
     /\ \/ call.user_id = ""
        \/ call.input.username = <<>>
        \/ call.input.password = <<>>)
    => /\ call.exc = "ValidationError"
       /\ RowsOf(call.user_id) = call.input.before

\* C7: retrieve of a record encrypted under another key than the one of the
\* running process raises InvalidToken and returns nothing, and whatever
\* retrieve returns is the plaintext the record was made from
C7_WrongKeyFails ==
    /\ \A u \in UserIds :
         LET out == retrieve_credentials(u) IN
         \A r \in RowsOf(u) :
            /\ (r.encrypted_username.key # key \/ r.encrypted_password.key # key)
               => (out.exc = "InvalidToken" /\ out.ret = None)
            /\ out.ret.tag = "dict"
               => /\ encode(out.ret.username) = r.encrypted_username.data
                  /\ encode(out.ret.password) = r.encrypted_password.data
    /\ (/\ call.op = "retrieve"
        /\ \E r \in RowsOf(call.user_id) : r.encrypted_username.key # key)
       => (call.exc = "InvalidToken" /\ call.ret = None)

\* a retrieve after a restart under a new key raised InvalidToken
C7_Witness ==
    /\ call.op = "retrieve"
    /\ call.exc = "InvalidToken"
    /\ call.ret = None
    /\ \E r \in RowsOf(call.user_id) :
         /\ r.encrypted_username.key # key
         /\ r.encrypted_username.data = encode(TextAccent)

\* sub occurs in s
Contains(s, sub) ==
    \E i \in 1 .. (Len(s) - Len(sub) + 1) : SubSeq(s, i, i + Len(sub) - 1) = sub

\* C8 as claimed: while a token is active, nothing that retrieve or the GET
\* endpoint returns contains it (the log records of the model carry user ids
\* and exception names only)
C8_TokenOnlyFromIssue ==
    \A u \in UserIds :
        (active[u] # None /\ Verifies(u, active[u].token))
        => /\ (call.op = "retrieve" /\ call.ret.tag = "dict")
              => ~Contains(call.ret.hint, active[u].token)
           /\ (call.op = "api_retrieve" /\ call.exc = "" /\ call.ret.status = 200)
              => ~Contains(call.ret.body.hint, active[u].token)

ProfilesOf(user_id) == {r \in user_biometrics : r.user_id = user_id}

\* C9 as claimed: an enroll on an image with a face returns True and leaves the
\* first encoding as the one profile of the user
C9_EnrollPersistsFirstFace ==
    /\ \A u \in UserIds : Cardinality(ProfilesOf(u)) <= 1
    /\ (call.op = "enroll" /\ call.input.readable /\ Len(call.input.faces) >= 1)
       => /\ call.ret = Bool(TRUE)
          /\ ProfilesOf(call.user_id) =
               {[user_id |-> call.user_id,
                 face_encoding |-> tobytes(call.input.faces[1])]}

\* what enroll_user_biometrics logs where it finds no face (line 129)
EnrollNoFaceLog(user_id) ==
    <<Entry("error", "No face detected in image for user", <<user_id>>)>>

ExtractionFails(image) ==
    \/ "face_recognition" \notin ModuleGlobals
    \/ ~image.readable

\* what the caller of enroll gets for an image without a face
EnrollNoFaceDetected == Bool(FALSE)

\* what the caller of authenticate gets for NoFaceDetected and for NoMatch
AuthenticateNoFaceOrNoMatch == {authenticate_no_face.ret, authenticate_no_match.ret}

\* C11: when the feature-extraction step of enroll or authenticate fails, the
\* caller gets an outcome it can tell apart from NoFaceDetected and, for
\* authenticate, from NoMatch: an exception, or a return value other than
\* theirs.
C11_ExtractionErrorDistinct ==
    /\ (call.op = "enroll" /\ ExtractionFails(call.input))
          => (call.exc # "" \/ call.ret # EnrollNoFaceDetected)
    /\ (call.op = "authenticate" /\ ExtractionFails(call.input))
          => (call.exc # "" \/ call.ret \notin AuthenticateNoFaceOrNoMatch)

\* ---- C12 ---------------------------------------------------------------
\* C12: a verify, whatever it returns or raises, leaves every table as it
\* was: the record, hint and stored token of every user are the same after the
\* call as before it, and so is the key; and a token that a verify returned
\* True for verifies at every later time before its expiry, until the next
\* store or issue for that user, in whatever process: verify returns True for
\* it, and so did the last call if it was a verify of it
C12_VerifyChangesNothing ==
    /\ [][call'.op = "verify"
          => /\ user_credentials' = user_credentials
             /\ user_biometrics' = user_biometrics
             /\ tables' = tables
             /\ key' = key]_vars
    /\ [](\A u \in AllUserIds :
            (verified[u] # None /\ now_before(verified[u].expiry))
            => /\ verify(u, verified[u].token).exc = ""
               /\ verify(u, verified[u].token).ret = Bool(TRUE)
               /\ (call.op = "verify" /\ call.user_id = u
                                      /\ call.input = verified[u].token)
                  => (call.exc = "" /\ call.ret = Bool(TRUE)))

\* a verify returned True for a token that a verify had returned True for at
\* an earlier time of the clock, with no store or issue for the user since
C12_Witness ==
    /\ call.op = "verify"
    /\ call.ret = Bool(TRUE)
    /\ verified[call.user_id] # None
    /\ verified[call.user_id].token = call.input
    /\ now > verified[call.user_id].at
    /\ now_before(verified[call.user_id].expiry)

\* ---- C13 ---------------------------------------------------------------
\* C13: verify returns True for a user only for a token that an issue for that
\* user returned; whatever hint the caller of store supplied, no string
\* verifies for a user for whom no issue has returned since the last store of
\* the record.
C13_VerifyOnlyIssuedToken ==
    /\ \A u \in UserIds, t \in Probes :
         Verifies(u, t) => (active[u] # None /\ t = active[u].token)
    /\ (call.op = "verify" /\ call.ret = Bool(TRUE))
         => /\ active[call.user_id] # None
            /\ call.input = active[call.user_id].token

====
